---- MODULE Spec2Model ----
(***************************************************************************)
(* Model of arbiter's dependency scheduler (arbiter/scheduler.py).         *)
(* The Scheduler owns a dependency Graph, a task registry and the          *)
(* running / completed / failed sets.  arbiter/graph.py and                *)
(* arbiter/utils.py are modelled from the written specification.           *)
(***************************************************************************)
EXTENDS Integers, FiniteSets, Sequences, TLC

(***************************************************************************)
(* Bounds                                                                  *)
(***************************************************************************)
MaxOps == 6
MaxDeclaredOps == 5
MaxDelayOps == 4
MaxDelay == 1
MaxDeps == 2
MaxSessionOps == 5
MaxLoopOps == 4
MaxDiamondOps == 9

SecondsPerDay == 86400

Names == {"a", "b", "c"}
NoneName == "None"
UnhashableName == "[]"
TaskNames == Names \cup {NoneName, UnhashableName}
DepNames == Names \cup {NoneName}
DepSets == {D \in SUBSET DepNames : Cardinality(D) <= MaxDeps}
Delays == 0..MaxDelay
DelayDepSets == {{}} \cup {{n} : n \in Names}
NoDelay == -1

\* graph, tasks, running, completed, failed, min_delay: the Scheduler's fields
\* now: the clock datetime.now() reads
\* last: the latest call, its argument and the exception it raised
\* ops: the calls the driver may still make
\* declared: history variable, the dependency set each registered task was
\*   declared with; it is recorded in the behaviours where recording is TRUE
\* session: where the driver is in "with scheduler:": "none" when the driver
\*   uses no scoped session, "setup" before __enter__, "open" inside the
\*   block, "loop" inside a block whose body is the driver loop, "closed"
\*   after __exit__
\* starts: history variable, for each task that was pending or running when
\*   the with block was entered, how often the driver loop has started it
VARIABLES graph, tasks, running, completed, failed, min_delay, now, last, ops,
          declared, recording, session, starts

vars == <<graph, tasks, running, completed, failed, min_delay, now, last, ops,
          declared, recording, session, starts>>

(***************************************************************************)
(* Durations: a timedelta is kept normalised as days and seconds, the way  *)
(* datetime.timedelta stores it (0 <= seconds < 86400, days may be < 0).   *)
(***************************************************************************)
TimeDelta(n) == [days |-> n \div SecondsPerDay, seconds |-> n % SecondsPerDay]

TdSub(x, y) ==
    LET s == x.seconds - y.seconds
    IN  [days |-> (x.days - y.days) + (s \div SecondsPerDay),
         seconds |-> s % SecondsPerDay]

DtSub(t1, t2) == TimeDelta(t1 - t2)

timedelta_to_seconds(td) == td.days * SecondsPerDay + td.seconds

(***************************************************************************)
(* Dependency graph: a function from node name to the set of unresolved    *)
(* dependency names of that node.                                          *)
(***************************************************************************)
EmptyGraph == [n \in {} |-> {}]

GraphNodes(g) == DOMAIN g

GraphRoots(g) == {n \in DOMAIN g : g[n] = {}}

RECURSIVE Closure(_, _)
Closure(g, S) ==
    LET next == S \cup UNION {g[n] : n \in S \cap DOMAIN g}
    IN  IF next = S THEN S ELSE Closure(g, next)

\* every name n depends on, directly or through other nodes
DependsOn(g, n) == IF n \in DOMAIN g THEN Closure(g, g[n]) ELSE {}

\* every node that depends, directly or transitively, on name
Dependents(g, name) == {n \in DOMAIN g : name \in DependsOn(g, n)}

\* mutant: only a task that names itself is taken for a cycle
WouldCycleSelfOnly(g, name, deps) == name \in deps

WouldCycle(g, name, deps) ==
    \/ name \in deps
    \/ \E d \in deps : name \in DependsOn(g, d)

GraphAddFails(g, name, deps) == name \in DOMAIN g \/ WouldCycle(g, name, deps)

GraphAdd(g, name, deps) ==
    [n \in DOMAIN g \cup {name} |-> IF n = name THEN deps ELSE g[n]]

Restrict(g, S) == [n \in S |-> g[n]]

\* strategy default: only the node goes, dependents keep their edge
GraphRemoveDefault(g, name) == Restrict(g, DOMAIN g \ {name})

\* strategy orphan: the node goes and its edge is dropped from dependents
GraphRemoveOrphan(g, name) ==
    [n \in DOMAIN g \ {name} |-> g[n] \ {name}]

\* strategy remove: the names removed, the node and all its dependents
GraphRemoveCascadeSet(g, name) == {name} \cup Dependents(g, name)

GraphRemoveCascade(g, name) ==
    Restrict(g, DOMAIN g \ GraphRemoveCascadeSet(g, name))

Dangling(g) == {n \in DOMAIN g : ~(g[n] \subseteq DOMAIN g)}

RECURSIVE GraphPrune(_)
GraphPrune(g) ==
    IF Dangling(g) = {} THEN g
    ELSE GraphPrune(Restrict(g, DOMAIN g \ Dangling(g)))

GraphPruneSet(g) == DOMAIN g \ DOMAIN GraphPrune(g)

(***************************************************************************)
(* Scheduler helpers                                                       *)
(***************************************************************************)
Hashable(name) == name # UnhashableName

\* mutant: the test for None is left out
valid_name_hashable(name) == Hashable(name)

valid_name(name) == name # NoneName /\ Hashable(name)

Task(name, delay, ts) == [name |-> name, delay |-> delay, timestamp |-> ts]

\* the remaining delay of a registered task, in seconds
Delta(task, t) ==
    timedelta_to_seconds(TdSub(TimeDelta(task.delay), DtSub(t, task.timestamp)))

\* mutant: a task is ready as soon as nothing remains of its delay
IsReadyAtZero(delta) == delta <= 0

IsReady(delta) == delta < 0

\* mutant: the delay of a ready task is not reset to 0
SampleRaw(delta) == delta

Sample(delta) == IF IsReady(delta) THEN 0 ELSE delta

\* mutant: the roots that are running are candidates too
CandidatesWithRunning(g, r) == GraphRoots(g)

Candidates(g, r) == GraphRoots(g) \ r

Runnable(g, tk, r, t) ==
    {n \in Candidates(g, r) : IsReady(Delta(tk[n], t))}

SetMin(S) == CHOOSE x \in S : \A y \in S : x <= y

MinDelay(g, tk, r, t) ==
    LET delays == {Sample(Delta(tk[n], t)) : n \in Candidates(g, r)}
    IN  IF Cardinality(delays) > 0 THEN SetMin(delays) ELSE 0

is_finished == ~(GraphRoots(graph) # {} \/ running # {})

\* _cascade_failure: the graph and the failed set it leaves
CascadeGraph(g, name) ==
    IF name \in DOMAIN g THEN GraphRemoveCascade(g, name) ELSE g

\* mutant: the names the graph removed are dropped, only name is failed
CascadeFailedNameOnly(g, f, name) == f \cup {name}

\* mutant: a name that is not in the graph is not failed
CascadeFailedNodesOnly(g, f, name) ==
    IF name \in DOMAIN g THEN f \cup GraphRemoveCascadeSet(g, name)
    ELSE f

CascadeFailed(g, f, name) ==
    IF name \in DOMAIN g THEN f \cup GraphRemoveCascadeSet(g, name)
    ELSE f \cup {name}

\* mutant: a finished task is removed with the default strategy
EndSuccessGraphDefault(g, name) == GraphRemoveDefault(g, name)

\* end_task on success: the node is removed with the orphan strategy
EndSuccessGraph(g, name) == GraphRemoveOrphan(g, name)

BadDependency(d, f) == ~valid_name(d) \/ d \in f

\* mutant: completed dependencies are kept as edges
IncompleteDependenciesAll(deps, c) == deps

IncompleteDependencies(deps, c) == {d \in deps : d \notin c}

\* mutant: the name given is not checked against runnable
StartRejectsNothing(name, rset) == FALSE

\* start_task: a name that is not runnable is refused
StartRejects(name, rset) == name \notin rset

\* mutant: a name that is not running is ended all the same
NotRunningIgnored(name, r) == FALSE

\* end_task: set.remove raises for a name that is not running
NotRunning(name, r) == name \notin r

\* mutant: the names prune returns are dropped
PruneFailedNone(g, f) == f

\* remove_unrunnable: the names prune removed join failed
PruneFailed(g, f) == f \cup GraphPruneSet(g)

\* fail_remaining: every node of the graph joins failed
FailRemainingFailed(g, f) == f \cup GraphNodes(g)

\* mutant: the running set is kept
FailRemainingRunningKept(r) == r

\* fail_remaining: the running set is replaced by an empty one
FailRemainingRunning(r) == {}

\* one more start of name by the driver loop
Started(s, name) ==
    [n \in DOMAIN s \cup {name} |->
        IF n = name THEN (IF n \in DOMAIN s THEN s[n] ELSE 0) + 1 ELSE s[n]]

\* the call just made: its argument, the exception it raised and the names
\* it took out of the graph
Op(op, name, success, err, g, h) ==
    [op |-> op, name |-> name, success |-> success, err |-> err,
     removed |-> DOMAIN g \ DOMAIN h, deps |-> {}, indirect |-> {}]

\* a call of add_task, with the dependencies of the task it was given
AddOp(name, deps, err, g, h) ==
    [Op("add_task", name, TRUE, err, g, h) EXCEPT !.deps = deps]

\* a call that prunes the graph, with the names that went although each of
\* their own edges pointed at a node: they depended on a pruned node
PruneOp(op, g, h) ==
    [Op(op, NoneName, TRUE, "none", g, h)
        EXCEPT !.indirect = (DOMAIN g \ DOMAIN h) \ Dangling(g)]

(***************************************************************************)
(* Initial state: Scheduler() with no tasks, completed or failed.          *)
(***************************************************************************)
Fresh ==
    /\ graph = EmptyGraph
    /\ tasks = [n \in {} |-> Task(n, 0, 0)]
    /\ running = {}
    /\ completed = {}
    /\ failed = {}
    /\ min_delay = NoDelay
    /\ now = 0
    /\ last = Op("init", NoneName, TRUE, "none", EmptyGraph, EmptyGraph)
    /\ declared = [n \in {} |-> {}]
    /\ starts = [n \in {} |-> 0]

Init == Fresh /\ ops = MaxOps /\ recording = FALSE /\ session = "none"

InitDeclared ==
    Fresh /\ ops = MaxDeclaredOps /\ recording = TRUE /\ session = "none"

InitDelay ==
    Fresh /\ ops = MaxDelayOps /\ recording = FALSE /\ session = "none"

InitSession ==
    Fresh /\ ops = MaxSessionOps /\ recording = FALSE /\ session = "setup"

InitLoop ==
    Fresh /\ ops = MaxLoopOps /\ recording = FALSE /\ session = "setup"

InitDiamond ==
    Fresh /\ ops = MaxDiamondOps /\ recording = FALSE /\ session = "none"

\* the driver's calls are counted until it enters its loop, which runs until
\* the scheduler is finished
Step ==
    /\ IF session = "loop" THEN ops' = ops ELSE ops > 0 /\ ops' = ops - 1
    /\ recording' = recording

Record(f, name, deps) ==
    [n \in DOMAIN f \cup {name} |-> IF n = name THEN deps ELSE f[n]]

(***************************************************************************)
(* Operations                                                              *)
(***************************************************************************)
add_task(name, deps, delay) ==
    /\ Step
    /\ IF ~valid_name(name)
       THEN /\ UNCHANGED <<graph, tasks, failed, declared>>
            /\ last' = AddOp(name, deps, "ValueError", graph, graph)
       ELSE /\ tasks' = [n \in DOMAIN tasks \cup {name} |->
                           IF n = name THEN Task(name, delay, now)
                           ELSE tasks[n]]
            /\ declared' = IF recording THEN Record(declared, name, deps)
                           ELSE declared
            /\ IF \E d \in deps : BadDependency(d, failed)
               THEN /\ graph' = CascadeGraph(graph, name)
                    /\ failed' = CascadeFailed(graph, failed, name)
               ELSE IF GraphAddFails(graph, name,
                                     IncompleteDependencies(deps, completed))
                    THEN /\ graph' = CascadeGraph(graph, name)
                         /\ failed' = CascadeFailed(graph, failed, name)
                    ELSE /\ graph' = GraphAdd(graph, name,
                                      IncompleteDependencies(deps, completed))
                         /\ failed' = failed
            /\ last' = AddOp(name, deps, "none", graph, graph')
    /\ UNCHANGED <<running, completed, min_delay, now, session, starts>>

remove_task(name, raises) ==
    /\ Step
    /\ running' = running \ {name}
    /\ completed' = completed \ {name}
    /\ failed' = failed \ {name}
    /\ IF name \in DOMAIN graph
       THEN /\ graph' = GraphRemoveDefault(graph, name)
            /\ tasks' = Restrict(tasks, DOMAIN tasks \ {name})
            /\ declared' = Restrict(declared, DOMAIN declared \ {name})
            /\ last' = Op("remove_task", name, TRUE, "none", graph, graph')
       ELSE \* Graph.remove of a name that is not a node is erroneous
            /\ graph' = graph
            /\ IF raises
               THEN /\ tasks' = tasks
                    /\ declared' = declared
                    /\ last' = Op("remove_task", name, TRUE, "KeyError",
                                  graph, graph)
               ELSE /\ tasks' = Restrict(tasks, DOMAIN tasks \ {name})
                    /\ declared' = Restrict(declared, DOMAIN declared \ {name})
                    /\ last' = Op("remove_task", name, TRUE, "none",
                                  graph, graph)
    /\ UNCHANGED <<min_delay, now, session, starts>>

runnable ==
    /\ Step
    /\ min_delay' = MinDelay(graph, tasks, running, now)
    /\ last' = Op("runnable", NoneName, TRUE, "none", graph, graph)
    /\ UNCHANGED <<graph, tasks, running, completed, failed, now, declared,
                   session, starts>>

\* start_task(): no name given, any runnable task is taken
start_task_any ==
    /\ Step
    /\ min_delay' = MinDelay(graph, tasks, running, now)
    /\ IF Runnable(graph, tasks, running, now) = {}
       THEN /\ running' = running
            /\ starts' = starts
            /\ last' = Op("start_task", NoneName, TRUE, "none", graph, graph)
       ELSE \E name \in Runnable(graph, tasks, running, now) :
                /\ running' = running \cup {name}
                /\ starts' = IF session = "loop" THEN Started(starts, name)
                              ELSE starts
                /\ last' = Op("start_task", name, TRUE, "none", graph, graph)
    /\ UNCHANGED <<graph, tasks, completed, failed, now, declared, session>>

start_task(name) ==
    /\ Step
    /\ min_delay' = MinDelay(graph, tasks, running, now)
    /\ IF StartRejects(name, Runnable(graph, tasks, running, now))
       THEN /\ running' = running
            /\ starts' = starts
            /\ last' = Op("start_task", name, TRUE, "ValueError", graph, graph)
       ELSE /\ running' = running \cup {name}
            /\ starts' = IF session = "loop" THEN Started(starts, name)
                          ELSE starts
            /\ last' = Op("start_task", name, TRUE, "none", graph, graph)
    /\ UNCHANGED <<graph, tasks, completed, failed, now, declared, session>>

end_task(name, success) ==
    /\ Step
    /\ IF NotRunning(name, running)
       THEN /\ UNCHANGED <<graph, running, completed, failed>>
            /\ last' = Op("end_task", name, success, "KeyError", graph, graph)
       ELSE /\ running' = running \ {name}
            /\ IF success
               THEN /\ completed' = completed \cup {name}
                    /\ failed' = failed
                    /\ IF name \in DOMAIN graph
                       THEN /\ graph' = EndSuccessGraph(graph, name)
                            /\ last' = Op("end_task", name, success, "none",
                                          graph, graph')
                       ELSE \* erroneous Graph.remove, after completed is updated
                            /\ graph' = graph
                            /\ \E e \in {"none", "KeyError"} :
                                 last' = Op("end_task", name, success, e,
                                            graph, graph)
               ELSE /\ completed' = completed
                    /\ graph' = CascadeGraph(graph, name)
                    /\ failed' = CascadeFailed(graph, failed, name)
                    /\ last' = Op("end_task", name, success, "none",
                                  graph, graph')
    /\ UNCHANGED <<tasks, min_delay, now, declared, session, starts>>

remove_unrunnable ==
    /\ Step
    /\ failed' = PruneFailed(graph, failed)
    /\ graph' = GraphPrune(graph)
    /\ last' = PruneOp("remove_unrunnable", graph, graph')
    /\ UNCHANGED <<tasks, running, completed, min_delay, now, declared,
                   session, starts>>

fail_remaining ==
    /\ Step
    /\ failed' = FailRemainingFailed(graph, failed)
    /\ graph' = EmptyGraph
    /\ running' = FailRemainingRunning(running)
    /\ last' = Op("fail_remaining", NoneName, TRUE, "none", graph, graph')
    /\ UNCHANGED <<tasks, completed, min_delay, now, declared, session, starts>>

\* __enter__: remove_unrunnable(), then the body of the with block begins
enter(body) ==
    /\ session = "setup"
    /\ Step
    /\ failed' = PruneFailed(graph, failed)
    /\ graph' = GraphPrune(graph)
    /\ last' = PruneOp("__enter__", graph, graph')
    /\ session' = body
    /\ starts' = [n \in DOMAIN graph \cup running |-> 0]
    /\ UNCHANGED <<tasks, running, completed, min_delay, now, declared>>

\* __exit__: fail_remaining(), however the body of the with block was left
exit ==
    /\ session \in {"open", "loop"}
    /\ Step
    /\ failed' = FailRemainingFailed(graph, failed)
    /\ graph' = EmptyGraph
    /\ running' = FailRemainingRunning(running)
    /\ last' = Op("__exit__", NoneName, TRUE, "none", graph, graph')
    /\ session' = "closed"
    /\ UNCHANGED <<tasks, completed, min_delay, now, declared, starts>>

\* datetime.now() moves on between two calls
Tick ==
    /\ Step
    /\ now' = now + 1
    /\ last' = Op("tick", NoneName, TRUE, "none", graph, graph)
    /\ UNCHANGED <<graph, tasks, running, completed, failed, min_delay, declared,
                   session, starts>>

\* the calls that take no task
Drive ==
    \/ \E name \in Names, raises \in BOOLEAN : remove_task(name, raises)
    \/ runnable
    \/ start_task_any
    \/ \E name \in Names : start_task(name)
    \/ \E name \in Names, success \in BOOLEAN : end_task(name, success)
    \/ remove_unrunnable
    \/ fail_remaining
    \/ Tick

AddInvalid == \E name \in {NoneName, UnhashableName} : add_task(name, {}, 0)

\* tasks with dependencies and no delay
Next ==
    \/ \E name \in Names, deps \in DepSets : add_task(name, deps, 0)
    \/ AddInvalid
    \/ Drive

\* tasks with a delay and at most one dependency
NextDelay ==
    \/ \E name \in Names, deps \in DelayDepSets, delay \in Delays :
           add_task(name, deps, delay)
    \/ AddInvalid
    \/ Drive

Spec == Init /\ [][Next]_vars

SpecDeclared == InitDeclared /\ [][Next]_vars

SpecDelay == InitDelay /\ [][NextDelay]_vars

(***************************************************************************)
(* A scoped session: any calls at setup, then "with scheduler:" around a   *)
(* body that admits and removes no task, left at any point.                *)
(***************************************************************************)
Body ==
    \/ runnable
    \/ start_task_any
    \/ \E name \in Names : start_task(name)
    \/ \E name \in Names, success \in BOOLEAN : end_task(name, success)
    \/ remove_unrunnable
    \/ Tick

NextSession ==
    \/ session = "setup" /\ Next
    \/ enter("open")
    \/ session = "open" /\ Body
    \/ exit

SpecSession == InitSession /\ [][NextSession]_vars

(***************************************************************************)
(* The driver loop of the written specification: tasks are admitted, then  *)
(*   with scheduler:                                                       *)
(*       while not scheduler.is_finished():                                *)
(*           start a runnable task, or report the end of a running one,    *)
(*           or sleep while every waiting root is delayed                  *)
(***************************************************************************)
Admission ==
    \/ \E name \in Names, deps \in DelayDepSets, delay \in Delays :
           add_task(name, deps, delay)
    \/ \E name \in Names, raises \in BOOLEAN : remove_task(name, raises)
    \/ start_task_any
    \/ Tick

LoopStart ==
    /\ session = "loop"
    /\ Runnable(graph, tasks, running, now) # {}
    /\ start_task_any

LoopEnd(name) ==
    /\ session = "loop"
    /\ name \in running
    /\ \E success \in BOOLEAN : end_task(name, success)

\* nothing is runnable yet: the driver sleeps and the clock moves on
LoopSleep ==
    /\ session = "loop"
    /\ Runnable(graph, tasks, running, now) = {}
    /\ Candidates(graph, running) # {}
    /\ Tick

LoopExit == session = "loop" /\ is_finished /\ exit

NextLoop ==
    \/ session = "setup" /\ Admission
    \/ enter("loop")
    \/ LoopStart
    \/ \E name \in Names : LoopEnd(name)
    \/ LoopSleep
    \/ LoopExit

\* the clock advances, the driver starts what is runnable and every running
\* task is reported ended
LoopFairness ==
    /\ WF_vars(LoopStart)
    /\ \A name \in Names : WF_vars(LoopEnd(name))
    /\ WF_vars(LoopSleep)

SpecLoop == InitLoop /\ [][NextLoop]_vars /\ LoopFairness

(***************************************************************************)
(* The diamond: A, then B and C waiting for A, then D waiting for B and C. *)
(***************************************************************************)
DiamondNames == {"A", "B", "C", "D"}

DiamondDeps(name) ==
    CASE name = "A" -> {}
      [] name = "B" -> {"A"}
      [] name = "C" -> {"A"}
      [] name = "D" -> {"B", "C"}

NextDiamond ==
    \/ \E name \in DiamondNames :
           name \notin DOMAIN tasks /\ add_task(name, DiamondDeps(name), 0)
    \/ runnable
    \/ start_task_any
    \/ \E name \in DiamondNames : start_task(name)
    \/ \E name \in DiamondNames, success \in BOOLEAN : end_task(name, success)
    \/ Tick

SpecDiamond == InitDiamond /\ [][NextDiamond]_vars

(***************************************************************************)
(* Properties                                                              *)
(***************************************************************************)
\* C1: no task runs with an unmet or broken dependency: every dependency a
\* running task was declared with is in completed, and is neither failed,
\* pending in the graph, running nor unknown.
C1_RunningDependenciesCompleted ==
    \A n \in running \cap DOMAIN declared :
        \A d \in declared[n] :
            /\ d \in completed
            /\ d \notin failed
            /\ d \notin DOMAIN graph
            /\ d \notin running

\* C2: the completed set and the failed set are disjoint in every reachable
\* state.
C2_CompletedFailedDisjoint == completed \cap failed = {}

\* the step is a call of add_task with a valid name
AddStep == last'.op = "add_task" /\ last'.name \in Names

OthersUntouched(name) ==
    \A m \in Names \ {name} :
        /\ (m \in DOMAIN graph) = (m \in DOMAIN graph')
        /\ m \in DOMAIN graph => graph'[m] = graph[m]
        /\ (m \in running) = (m \in running')
        /\ (m \in completed) = (m \in completed')
        /\ (m \in failed) = (m \in failed')

\* the task is a node whose edges are its dependencies not yet completed,
\* and nothing else changed
Admitted(name, deps) ==
    /\ name \in DOMAIN graph'
    /\ graph'[name] = deps \ completed
    /\ failed' = failed
    /\ running' = running
    /\ completed' = completed

\* C3 as claimed: add_task either admits the task or adds its name, and no
\* other name, to failed; no other task changes in the graph or in the sets,
\* also when the name is already a node of the graph.
C3_AddTaskTouchesOneName ==
    [][AddStep =>
          /\ \/ Admitted(last'.name, last'.deps)
             \/ failed' = failed \cup {last'.name}
          /\ OthersUntouched(last'.name)]_vars

\* the names that go when name is rejected: name itself and, when it was a
\* node already, every node depending on it
Rejected(name) ==
    IF name \in DOMAIN graph THEN {name} \cup Dependents(graph, name)
    ELSE {name}

\* C3 as amended: add_task with a valid name either admits the task as a new
\* node whose edges are its dependencies not in completed, changing nothing
\* else, or fails it: the name joins failed and, when the name was a node
\* already, it and every node that transitively depends on it leave the
\* graph and join failed with it; running, completed, the other nodes and
\* their edges do not change.
C3_AddTaskAdmitsOrCascades ==
    [][AddStep =>
          /\ running' = running
          /\ completed' = completed
          /\ last'.err = "none"
          /\ \/ /\ last'.name \notin DOMAIN graph
                /\ Admitted(last'.name, last'.deps)
                /\ DOMAIN graph' = DOMAIN graph \cup {last'.name}
                /\ \A m \in DOMAIN graph : graph'[m] = graph[m]
             \/ /\ failed' = failed \cup Rejected(last'.name)
                /\ DOMAIN graph' = DOMAIN graph \ Rejected(last'.name)
                /\ \A m \in DOMAIN graph' : graph'[m] = graph[m]]_vars

\* a duplicate add_task has just failed a node together with a dependent
C3_Witness ==
    /\ last.op = "add_task"
    /\ last.err = "none"
    /\ last.name \in last.removed
    /\ Cardinality(last.removed) >= 2
    /\ last.removed \subseteq failed

\* the step is end_task(n, ok) on a task that is running
EndStep(ok) ==
    last'.op = "end_task" /\ last'.success = ok /\ last'.name \in running

\* name and every node that depends on it through unresolved edges
WithDependents(name) ==
    {name} \cup {m \in DOMAIN graph : name \in DependsOn(graph, m)}

\* C4: cascade completeness: after end_task(n, false) on a running n, n and
\* every task that transitively depends on n are in failed and out of the
\* graph, n is not running, and no other task left the graph or was failed.
C4_CascadeCompleteness ==
    [][EndStep(FALSE) =>
          /\ last'.err = "none"
          /\ WithDependents(last'.name) \subseteq failed'
          /\ WithDependents(last'.name) \cap DOMAIN graph' = {}
          /\ last'.name \notin running'
          /\ DOMAIN graph' = DOMAIN graph \ WithDependents(last'.name)
          /\ failed' = failed \cup WithDependents(last'.name)]_vars

\* a failed end_task has just taken a task and two dependents out of the graph
C4_Witness ==
    /\ last.op = "end_task"
    /\ ~last.success
    /\ last.err = "none"
    /\ last.name \in last.removed
    /\ Cardinality(last.removed) >= 3
    /\ last.removed \subseteq failed

\* C5: end_task(n, true) on a running n: n leaves running and the graph and
\* joins completed; each direct dependent loses its edge to n, and is a root
\* when that was its only edge; no other node or edge changes, failed is
\* unchanged.
C5_SuccessOrphansDependents ==
    [][EndStep(TRUE) =>
          /\ running' = running \ {last'.name}
          /\ completed' = completed \cup {last'.name}
          /\ failed' = failed
          /\ DOMAIN graph' = DOMAIN graph \ {last'.name}
          /\ \A m \in DOMAIN graph' : graph'[m] = graph[m] \ {last'.name}
          /\ \A m \in DOMAIN graph' :
                 graph[m] = {last'.name} => m \in GraphRoots(graph')]_vars

\* a successful end_task has just left one root and one blocked node behind
C5_Witness ==
    /\ last.op = "end_task"
    /\ last.success
    /\ last.err = "none"
    /\ last.removed = {last.name}
    /\ last.name \in completed
    /\ \E m \in DOMAIN graph : graph[m] = {}
    /\ \E m \in DOMAIN graph : graph[m] # {}

\* a root that is not running and whose delay has passed
IsRunnable(n) ==
    /\ n \in DOMAIN graph
    /\ graph[n] = {}
    /\ n \notin running
    /\ now - tasks[n].timestamp > tasks[n].delay

\* C6: start_task of a name that is not runnable raises, end_task of a name
\* that is not running raises, and neither changes the graph, running,
\* completed, failed or the registry.
C6_MisuseRaisesAndChangesNothing ==
    [][/\ (last'.op = "start_task" /\ last'.name \in Names
              /\ ~IsRunnable(last'.name)) =>
             /\ last'.err = "ValueError"
             /\ UNCHANGED <<graph, running, completed, failed, tasks>>
       /\ (last'.op = "end_task" /\ last'.name \notin running) =>
             /\ last'.err = "KeyError"
             /\ UNCHANGED <<graph, running, completed, failed, tasks>>]_vars

\* start_task has just refused a task that is already running
C6_Witness ==
    /\ last.op = "start_task"
    /\ last.err = "ValueError"
    /\ last.name \in running

\* C7 as claimed: add_task with an invalid name raises and the name is in
\* failed afterwards.
C7_InvalidNameIsFailed ==
    (last.op = "add_task" /\ last.name \in {NoneName, UnhashableName}) =>
        (last.err = "ValueError" /\ last.name \in failed)

\* C7 as amended: add_task with an invalid name (None or not hashable) raises
\* ValueError and changes nothing: the name is not added to failed, and the
\* graph, the registry, running, completed and failed stay as they were.
C7_InvalidNameRaisesOnly ==
    [][(last'.op = "add_task" /\ last'.name \in {NoneName, UnhashableName}) =>
          /\ last'.err = "ValueError"
          /\ last'.name \notin failed'
          /\ UNCHANGED <<graph, tasks, running, completed, failed>>]_vars

\* add_task has just refused the name None while other tasks are registered
C7_Witness ==
    /\ last.op = "add_task"
    /\ last.name = NoneName
    /\ last.err = "ValueError"
    /\ DOMAIN tasks # {}

Acyclic(g) == \A n \in DOMAIN g : n \notin DependsOn(g, n)

\* the task depends on itself, or on a node that depends on it
ClosesCycle(name, deps) ==
    name \in deps \/ \E d \in deps : name \in DependsOn(graph, d)

\* C8 as claimed: add_task of a task that depends on itself or would close a
\* cycle raises nothing, adds that name and no other to failed, leaves the
\* task out of the graph, and the graph stays acyclic.
C8_CycleFailsOnlyThatTask ==
    [][(AddStep /\ ClosesCycle(last'.name, last'.deps)) =>
          /\ last'.err = "none"
          /\ failed' = failed \cup {last'.name}
          /\ last'.name \notin DOMAIN graph'
          /\ Acyclic(graph')]_vars

\* C8 as amended: add_task of a task whose dependencies not in completed
\* include its own name or would close a cycle raises nothing; the name is
\* in failed and not in the graph afterwards, and the graph stays acyclic.
\* The name is the only one failed when it was not a node before; when it
\* was one, every node that transitively depends on it is removed from the
\* graph and failed with it.
C8_CycleFailsTaskAndDependents ==
    [][(AddStep /\ ClosesCycle(last'.name, last'.deps \ completed)) =>
          /\ last'.err = "none"
          /\ last'.name \notin DOMAIN graph'
          /\ failed' = failed \cup Rejected(last'.name)
          /\ DOMAIN graph' = DOMAIN graph \ Rejected(last'.name)
          /\ Acyclic(graph')]_vars

\* add_task has just failed a new task that depends on a node waiting for it
C8_Witness ==
    /\ last.op = "add_task"
    /\ last.err = "none"
    /\ last.name \in failed
    /\ last.name \notin last.deps
    /\ last.removed = {}
    /\ \E x \in last.deps \cap DOMAIN graph : last.name \in graph[x]

\* the roots that are not running
Waiting == {n \in DOMAIN graph : graph[n] = {}} \ running

\* the time since the task was admitted, and what is left of its delay
Elapsed(n) == now - tasks[n].timestamp

Remaining(n) == tasks[n].delay - Elapsed(n)

\* C9 as claimed: a root that is not running is absent from runnable while
\* now - timestamp < delay and present once now - timestamp >= delay.
C9_ReadyWhenDelayReached ==
    \A n \in Waiting :
        (n \in Runnable(graph, tasks, running, now)) <=>
            (Elapsed(n) >= tasks[n].delay)

\* C9 as amended: a root that is not running is absent from runnable while
\* now - timestamp <= delay, also at the instant now - timestamp equals the
\* delay, and present once now - timestamp > delay; start_task(name) takes
\* it only then and raises before.
C9_ReadyWhenDelayExceeded ==
    /\ \A n \in Waiting :
           (n \in Runnable(graph, tasks, running, now)) <=>
               (Elapsed(n) > tasks[n].delay)
    /\ (last.op = "start_task" /\ last.err = "none" /\ last.name \in Names) =>
           Elapsed(last.name) > tasks[last.name].delay
    /\ (last.op = "start_task" /\ last.err = "ValueError"
            /\ last.name \in Waiting) =>
           Elapsed(last.name) <= tasks[last.name].delay

\* start_task has just refused a root whose delay of 1 has exactly elapsed
C9_Witness ==
    /\ last.op = "start_task"
    /\ last.err = "ValueError"
    /\ last.name \in Waiting
    /\ tasks[last.name].delay > 0
    /\ Elapsed(last.name) = tasks[last.name].delay

\* what a waiting root contributes to min_delay
Contribution(n) == IF Remaining(n) < 0 THEN 0 ELSE Remaining(n)

\* C10: right after runnable is read, min_delay is the least contribution of
\* the roots that are not running (0 for a ready one, its remaining delay
\* otherwise) and 0 when there is none; it is 0 when some task is runnable,
\* and otherwise no waiting root has less than min_delay left.
C10_MinDelayIsLeastRemaining ==
    last.op = "runnable" =>
        /\ Waiting = {} => min_delay = 0
        /\ Waiting # {} =>
               /\ \E n \in Waiting : min_delay = Contribution(n)
               /\ \A n \in Waiting : min_delay <= Contribution(n)
        /\ (\E n \in Waiting : Remaining(n) < 0) => min_delay = 0
        /\ (\A n \in Waiting : Remaining(n) >= 0) =>
               \A n \in Waiting : min_delay <= Remaining(n)

\* runnable was just read with one ready root and one still delayed
C10_Witness ==
    /\ last.op = "runnable"
    /\ min_delay = 0
    /\ \E n \in Waiting : Remaining(n) < 0
    /\ \E n \in Waiting : Remaining(n) > 0

\* the latest call was fail_remaining, directly or through __exit__
TornDown == last.op \in {"fail_remaining", "__exit__"}

\* every task of the registry is in completed or in failed
RegistryTerminal == \A n \in DOMAIN tasks : n \in completed \cup failed

\* C11: after fail_remaining(), called directly or by __exit__ on any exit of
\* the scoped session: the graph is empty, running is empty, every name that
\* was a graph node just before the call is in failed, is_finished() is
\* true, and every task in the registry is in completed or in failed.
C11_TeardownLeavesAllTerminal ==
    TornDown =>
        /\ graph = EmptyGraph
        /\ running = {}
        /\ last.removed \subseteq failed
        /\ is_finished
        /\ RegistryTerminal

\* C12: idempotent termination: when fail_remaining() is called right after
\* fail_remaining(), is_finished() is already true before the second call,
\* and the second call leaves the graph, running, completed, failed and the
\* registry as the first call left them; it adds no name to failed.
C12_FailRemainingTwiceIsNoOp ==
    [][(last.op = "fail_remaining" /\ last'.op = "fail_remaining") =>
          /\ is_finished
          /\ failed' \subseteq failed
          /\ UNCHANGED <<graph, running, completed, failed, tasks>>]_vars

\* fail_remaining has just run on a scheduler that was torn down before, with
\* failed tasks on record: it found no node to fail
C12_Witness ==
    /\ last.op = "fail_remaining"
    /\ last.removed = {}
    /\ graph = EmptyGraph
    /\ running = {}
    /\ failed # {}
    /\ DOMAIN tasks # {}
    /\ ops <= MaxOps - 3

\* the step is a call of remove_unrunnable, directly or through __enter__
PruneStep == last'.op \in {"remove_unrunnable", "__enter__"}

\* the nodes with a dangling dependency, direct or transitive
Unrunnable == {n \in DOMAIN graph : ~(DependsOn(graph, n) \subseteq DOMAIN graph)}

\* the dependencies of the task that are known to nobody: valid names that
\* are not a node, not completed and not failed
Ghosts(deps) ==
    {d \in deps \cap Names : d \notin DOMAIN graph \cup completed \cup failed}

\* add_task has nothing else to object to
Admissible(name, deps) ==
    /\ name \notin DOMAIN graph
    /\ \A d \in deps : d \in Names /\ d \notin failed
    /\ ~ClosesCycle(name, deps \ completed)

\* C13: a task X given to add_task with a dependency on a name that is
\* neither a node of the graph nor completed nor failed (never added, or
\* removed by remove_task) is admitted with the edge, so it is not a root,
\* and add_task fails nothing.  remove_unrunnable() prunes to a fixed point:
\* exactly the nodes with a dangling dependency, direct or transitive, leave
\* the graph and join failed; no remaining node has an edge to a name absent
\* from the graph, and the remaining nodes keep their edges.
C13_PruneToFixedPoint ==
    [][/\ (AddStep /\ Admissible(last'.name, last'.deps)
              /\ Ghosts(last'.deps) # {}) =>
             /\ last'.name \in DOMAIN graph'
             /\ Ghosts(last'.deps) \subseteq graph'[last'.name]
             /\ last'.name \notin GraphRoots(graph')
             /\ failed' = failed
       /\ PruneStep =>
             /\ DOMAIN graph' = DOMAIN graph \ Unrunnable
             /\ failed' = failed \cup Unrunnable
             /\ \A n \in DOMAIN graph' : graph'[n] \subseteq DOMAIN graph'
             /\ \A n \in DOMAIN graph' : graph'[n] = graph[n]
             /\ UNCHANGED <<running, completed, tasks>>]_vars

\* remove_unrunnable has just failed a task with a dangling edge together
\* with a task whose only fault was to depend on it
C13_Witness ==
    /\ last.op = "remove_unrunnable"
    /\ last.indirect # {}
    /\ last.removed \ last.indirect # {}
    /\ last.removed \subseteq failed
    /\ last.removed \cap DOMAIN graph = {}

\* the task has a state: it is pending or running in the graph, running,
\* completed or failed
Known(name) ==
    name \in DOMAIN graph \cup running \cup completed \cup failed

\* C14: remove_task(name) has no precondition and forgets the task: for a
\* name that is pending, running, completed or failed the call raises
\* nothing, and afterwards the name is in none of running, completed and
\* failed, is not a node of the graph and has no entry in the registry; no
\* other task changes: its dependents stay in the graph with their edge to
\* name, neither failed nor made roots.
C14_RemoveTaskForgetsTheTask ==
    [][(last'.op = "remove_task" /\ Known(last'.name)) =>
          /\ last'.err = "none"
          /\ last'.name \notin running' \cup completed' \cup failed'
          /\ last'.name \notin DOMAIN graph'
          /\ last'.name \notin DOMAIN tasks'
          /\ OthersUntouched(last'.name)
          /\ \A m \in DOMAIN tasks \ {last'.name} :
                 m \in DOMAIN tasks' /\ tasks'[m] = tasks[m]]_vars

\* all four tasks of the diamond were given to add_task
DiamondAdded == DOMAIN tasks = DiamondNames

\* the clock has moved since the last task was admitted
ClockMoved == \A n \in DOMAIN tasks : tasks[n].timestamp < now

\* the diamond with the given tasks running, completed and failed
Diamond(r, c, f) ==
    DiamondAdded /\ running = r /\ completed = c /\ failed = f

RunnableNow == Runnable(graph, tasks, running, now)

\* what the scenario says of the states it passes through: A is the only
\* root at first, B and C are the roots once A has completed, and C is what
\* is left once B and D have failed
DiamondStates ==
    /\ Diamond({}, {}, {}) =>
           /\ DOMAIN graph = DiamondNames
           /\ GraphRoots(graph) = {"A"}
           /\ ClockMoved => RunnableNow = {"A"}
    /\ Diamond({}, {"A"}, {}) =>
           /\ DOMAIN graph = {"B", "C", "D"}
           /\ GraphRoots(graph) = {"B", "C"}
           /\ ClockMoved => RunnableNow = {"B", "C"}
    /\ Diamond({}, {"A"}, {"B", "D"}) =>
           /\ DOMAIN graph = {"C"}
           /\ ClockMoved => RunnableNow = {"C"}

\* start_task() takes A, and end_task("A", true) completes it
DiamondStartAndEndOfA ==
    /\ (Diamond({}, {}, {}) /\ ClockMoved
           /\ last'.op = "start_task" /\ last'.err = "none") =>
          running' = {"A"}
    /\ (Diamond({"A"}, {}, {}) /\ last'.op = "end_task"
           /\ last'.name = "A" /\ last'.success) =>
          /\ last'.err = "none"
          /\ running' = {}
          /\ completed' = {"A"}
          /\ failed' = {}
          /\ GraphRoots(graph') = {"B", "C"}

\* the step is end_task("B", false)
EndOfB == last'.op = "end_task" /\ last'.name = "B" /\ ~last'.success

FailsBAndD ==
    /\ last'.err = "none"
    /\ last'.removed = {"B", "D"}
    /\ failed' = {"B", "D"}
    /\ DOMAIN graph' = {"C"}
    /\ completed' = {"A"}

\* C15 as claimed: the diamond A, B (A), C (A), D (B, C) with zero delays:
\* with all four added runnable is {A}; start_task() puts A in running;
\* end_task("A", true) makes B and C the roots and runnable {B, C}; then
\* end_task("B", false), called with no task running, fails B and D and
\* removes both, so that failed is {B, D}; runnable is then {C}.
C15_DiamondEndOfBUnstarted ==
    /\ []DiamondStates
    /\ [][/\ DiamondStartAndEndOfA
          /\ (Diamond({}, {"A"}, {}) /\ EndOfB) => FailsBAndD]_vars

\* C15 as amended: the same trace with B started before it is ended: with
\* all four added A is the only root and, once the clock has moved past the
\* admission, runnable is {A}; start_task() puts A in running;
\* end_task("A", true) makes B and C the roots and runnable {B, C};
\* end_task("B", false) then raises and changes nothing while B is not
\* running; after start_task("B") it fails B and D and removes both, so
\* that failed is {B, D}, and runnable is {C}.
C15_DiamondEndOfBStarted ==
    /\ []DiamondStates
    /\ [][/\ DiamondStartAndEndOfA
          /\ (Diamond({}, {"A"}, {}) /\ EndOfB) =>
                /\ last'.err = "KeyError"
                /\ UNCHANGED <<graph, running, completed, failed, tasks>>
          /\ (Diamond({"B"}, {"A"}, {}) /\ EndOfB) =>
                /\ FailsBAndD
                /\ running' = {}
                /\ ClockMoved =>
                       Runnable(graph', tasks', running', now') = {"C"}]_vars

\* the trace has run to its end: B was started and has just failed with D,
\* A is completed and C is the one runnable task
C15_Witness ==
    /\ last.op = "end_task"
    /\ last.name = "B"
    /\ ~last.success
    /\ last.removed = {"B", "D"}
    /\ Diamond({}, {"A"}, {"B", "D"})
    /\ RunnableNow = {"C"}

\* C16: every name in running is a node of the dependency graph: no
\* operation takes a name out of the graph and leaves it in running.
C16_RunningAreGraphNodes == running \subseteq DOMAIN graph

\* C17: name uniqueness: each name is in at most one of the graph's node
\* set, completed and failed.
C17_NameInOnePlace ==
    /\ DOMAIN graph \cap completed = {}
    /\ DOMAIN graph \cap failed = {}
    /\ completed \cap failed = {}

\* C18: the dependency graph is acyclic over its unresolved edges in every
\* reachable state, edges to names that are not nodes included: an edge
\* that dangled when it was inserted counts once its target is admitted,
\* and so do the edges remove_task left pointing at a name that comes back.
C18_GraphIsAcyclic == Acyclic(graph)

\* a node waits for a node that was admitted after it: its edge dangled
\* when it was inserted
C18_Witness ==
    \E x \in DOMAIN graph :
        \E y \in graph[x] \cap DOMAIN graph :
            /\ tasks[y].timestamp > tasks[x].timestamp
            /\ graph[y] # {}

\* remove_unrunnable() was called on entry and no task was added or removed
\* since
Pruned == session \in {"open", "loop"}

\* C19: is_finished() is true exactly when the graph has no roots and
\* running is empty; in a state reached after remove_unrunnable() with no
\* later add_task or remove_task, is_finished() implies that the graph is
\* empty and that every registered task is in completed or in failed.
C19_FinishedLeavesNothingPending ==
    /\ is_finished <=> (GraphRoots(graph) = {} /\ running = {})
    /\ (Pruned /\ is_finished) =>
           /\ graph = EmptyGraph
           /\ RegistryTerminal

\* every task the loop was given is in completed or in failed
LoopTasksTerminal == \A n \in DOMAIN starts : n \in completed \cup failed

\* C20: driver-loop termination: after __enter__ has pruned the graph, with
\* no further add_task or remove_task, a clock that advances, a driver that
\* starts a runnable task whenever there is one and every running task
\* eventually ended: is_finished() eventually becomes true and stays true,
\* every task that was pending or running when the loop began is then in
\* completed or in failed, and the loop starts no task more than once.
C20_DriverLoopTerminates ==
    /\ (session = "loop") ~> is_finished
    /\ [][(session \in {"loop", "closed"} /\ is_finished) => is_finished']_vars
    /\ []((session \in {"loop", "closed"} /\ is_finished) => LoopTasksTerminal)
    /\ [](\A n \in DOMAIN starts : starts[n] <= 1)

\* the loop has run to its end and was left: one task was started once and
\* completed, one was started once and failed, and one failed without ever
\* being started
C20_Witness ==
    /\ session = "closed"
    /\ is_finished
    /\ \E n \in DOMAIN starts : starts[n] = 1 /\ n \in completed \ failed
    /\ \E n \in DOMAIN starts : starts[n] = 1 /\ n \in failed \ completed
    /\ \E n \in DOMAIN starts : starts[n] = 0 /\ n \in failed \ completed

====
